---- MODULE Spec2Model ----
(***************************************************************************)
(* The multithreading example of src/main.cpp: the singleton TestClass2,   *)
(* its accessor GetInstance with three function-local statics (a           *)
(* boost::mutex, a boost::lock_guard on it and the TestClass2 instance),   *)
(* the endless worker thread thread_main_1, the five calls of              *)
(* multithreading_test on the main thread, and the static teardown that    *)
(* follows the return of main.                                             *)
(*                                                                         *)
(* Function-local statics are initialized thread-safely (one thread runs   *)
(* the initializer, the others wait at the declaration until it is done),  *)
(* and are destroyed in the reverse order of the completion of their       *)
(* construction when the process exits.                                    *)
(***************************************************************************)
EXTENDS Integers, Sequences, FiniteSets

\* Largest number of concurrent callers of GetInstance (SpecN).
MaxThreads == 3

\* multithreading_test: while (count <= 5)
MainCalls == 5

\* The main thread, and the value of "no thread" / "no reference".
MainThread == 0
NoThread == -1
NoRef == 0

Workers == 1..MaxThreads
\* thread1, the one boost::thread multithreading_test starts.
Thread1 == 1
Threads == {MainThread} \cup Workers

\* The function-local statics of GetInstance.
StaticNames == {"mutex", "guard", "instance"}

VARIABLES
    pc,          \* pc[t]: where thread t is, [at |-> ..., s |-> static or "none"]
    state,       \* state[s]: lifecycle of the static s
    owner,       \* the thread holding the boost::mutex, or NoThread
    atexitList,  \* destructors registered for process exit, next to run first
    count,       \* multithreading_test's local count
    instance,    \* instance[t]: the reference thread t's local `instance` holds
    returned,    \* the instance identities GetInstance has returned so far
    ctorCount,   \* number of TestClass2 constructor invocations
    dtorCount,   \* number of TestClass2 destructor invocations
    lockCount,   \* number of mutex.lock() calls
    unlockCount, \* number of mutex.unlock() calls
    started,     \* the worker threads that are running
    exited       \* the process has ended

vars == <<pc, state, owner, atexitList, count, instance, returned,
          ctorCount, dtorCount, lockCount, unlockCount, started, exited>>

At(a) == [at |-> a, s |-> "none"]
In(a, s) == [at |-> a, s |-> s]

\* Control is inside GetInstance.
InCall(t) == pc[t].at \in {"chk", "ctor", "rel", "ret"}

\* Thread t exists and runs.
Running(t) == ~exited /\ (t = MainThread \/ t \in started)

\* The position after the declaration of static s: the next declaration, or
\* the return statement.
AfterStatic(s) ==
    IF s = "mutex" THEN In("chk", "guard")
    ELSE IF s = "guard" THEN In("chk", "instance")
    ELSE At("ret")

\* Variants of GuardCheck: statics initialized without thread safety (a thread
\* that finds the initialization in progress runs it too), ...
GuardCheckRacy(s) ==
    IF state[s] \in {"Ready", "Destroyed"} THEN "pass" ELSE "init"
\* ... a thread that finds the initialization in progress goes on, ...
GuardCheckNoWait(s) ==
    IF state[s] = "Uninitialized" THEN "init" ELSE "pass"
\* ... and the lock taken again by every call while the static guard holds it.
GuardCheckRelock(s) ==
    IF state[s] = "Constructing" THEN "wait"
    ELSE IF state[s] = "Uninitialized" \/ s = "guard" THEN "init"
    ELSE "pass"

\* What a thread finds at the declaration of static s, from the static's guard
\* variable: "pass" once the initialization is complete (the destruction of
\* the static does not reset it), "init" when nobody has started it, "wait"
\* while another thread runs it.
GuardCheck(s) ==
    IF state[s] \in {"Ready", "Destroyed"} THEN "pass"
    ELSE IF state[s] = "Uninitialized" THEN "init"
    ELSE "wait"

\* Variants of Register: destructors run in the order of construction, and a
\* destructor registered twice.
RegisterFifo(list, s) == list \o <<s>>
RegisterTwice(list, s) == <<s, s>> \o list

\* Registration of a static's destructor at the completion of its
\* construction: destructors run in the reverse order of registration.
Register(list, s) == <<s>> \o list

\* The identity of the object GetInstance returns a reference to: the
\* TestClass2 living in the static storage (0: none was ever constructed).
InstanceRef == ctorCount

TypeOK ==
    /\ pc \in [Threads -> [at : {"absent", "start", "loop", "body", "chk", "ctor",
                                 "rel", "ret", "exit", "exited"},
                           s : StaticNames \cup {"none"}]]
    /\ state \in [StaticNames -> {"Uninitialized", "Constructing", "Ready", "Destroyed"}]
    /\ owner \in Threads \cup {NoThread}
    /\ atexitList \in Seq(StaticNames)
    /\ count \in 1..(MainCalls + 1)
    /\ instance \in [Threads -> Nat]
    /\ returned \subseteq Nat
    /\ ctorCount \in Nat /\ dtorCount \in Nat
    /\ lockCount \in Nat /\ unlockCount \in Nat
    /\ started \subseteq Workers
    /\ exited \in BOOLEAN

InitShared ==
    /\ state = [s \in StaticNames |-> "Uninitialized"]
    /\ owner = NoThread
    /\ atexitList = <<>>
    /\ count = 1
    /\ instance = [t \in Threads |-> NoRef]
    /\ returned = {}
    /\ ctorCount = 0 /\ dtorCount = 0
    /\ lockCount = 0 /\ unlockCount = 0
    /\ exited = FALSE

\* The program as written: main has reached multithreading_test.
Init ==
    /\ InitShared
    /\ pc = [t \in Threads |-> IF t = MainThread THEN At("start") ELSE At("absent")]
    /\ started = {}

\* N >= 1 threads, each running thread_main_1, launched together.
InitN ==
    /\ InitShared
    /\ \E n \in 1..MaxThreads :
        /\ started = 1..n
        /\ pc = [t \in Threads |-> IF t \in 1..n THEN At("body") ELSE At("absent")]

----------------------------------------------------------------------------
(* TestClass2::GetInstance, one step at a time, run by thread t *)

\* Control passes the declaration of an initialized static s.
PassStatic(t, s) ==
    /\ Running(t)
    /\ pc[t] = In("chk", s)
    /\ GuardCheck(s) = "pass"
    /\ pc' = [pc EXCEPT ![t] = AfterStatic(s)]
    /\ UNCHANGED <<state, owner, atexitList, count, instance, returned, ctorCount,
                   dtorCount, lockCount, unlockCount, started, exited>>

\* Thread t wins the initialization of static s. A thread that finds the
\* initialization in progress waits at the declaration: no action is enabled.
AcquireStatic(t, s) ==
    /\ Running(t)
    /\ pc[t] = In("chk", s)
    /\ GuardCheck(s) = "init"
    /\ state' = [state EXCEPT ![s] = "Constructing"]
    /\ pc' = [pc EXCEPT ![t] = In("ctor", s)]
    /\ UNCHANGED <<owner, atexitList, count, instance, returned, ctorCount,
                   dtorCount, lockCount, unlockCount, started, exited>>

\* boost::mutex mutex;  constructed unlocked
ConstructMutex(t) ==
    /\ Running(t)
    /\ pc[t] = In("ctor", "mutex")
    /\ owner' = NoThread
    /\ pc' = [pc EXCEPT ![t] = In("rel", "mutex")]
    /\ UNCHANGED <<state, atexitList, count, instance, returned, ctorCount,
                   dtorCount, lockCount, unlockCount, started, exited>>

\* boost::lock_guard<boost::mutex> guard(mutex);  the constructor locks the
\* mutex, waiting while another thread holds it.
ConstructGuard(t) ==
    /\ Running(t)
    /\ pc[t] = In("ctor", "guard")
    /\ owner = NoThread
    /\ owner' = t
    /\ lockCount' = lockCount + 1
    /\ pc' = [pc EXCEPT ![t] = In("rel", "guard")]
    /\ UNCHANGED <<state, atexitList, count, instance, returned, ctorCount,
                   dtorCount, unlockCount, started, exited>>

\* TestClass2::TestClass2()
ConstructInstance(t) ==
    /\ Running(t)
    /\ pc[t] = In("ctor", "instance")
    /\ ctorCount' = ctorCount + 1
    /\ pc' = [pc EXCEPT ![t] = In("rel", "instance")]
    /\ UNCHANGED <<state, owner, atexitList, count, instance, returned,
                   dtorCount, lockCount, unlockCount, started, exited>>

\* The initialization of static s is complete: the guard variable is set,
\* the waiting threads are released, the destructor is registered.
ReleaseStatic(t, s) ==
    /\ Running(t)
    /\ pc[t] = In("rel", s)
    /\ state' = [state EXCEPT ![s] = "Ready"]
    /\ atexitList' = Register(atexitList, s)
    /\ pc' = [pc EXCEPT ![t] = AfterStatic(s)]
    /\ UNCHANGED <<owner, count, instance, returned, ctorCount,
                   dtorCount, lockCount, unlockCount, started, exited>>

----------------------------------------------------------------------------
(* thread_main_1 *)

\* while (1) { cout; sleep(5); GetInstance() ...
WorkerCall(t) ==
    /\ t \in Workers /\ Running(t)
    /\ pc[t] = At("body")
    /\ pc' = [pc EXCEPT ![t] = In("chk", "mutex")]
    /\ UNCHANGED <<state, owner, atexitList, count, instance, returned, ctorCount,
                   dtorCount, lockCount, unlockCount, started, exited>>

\* ... TestClass2 & instance = <the returned reference>; }
WorkerReturn(t) ==
    /\ t \in Workers /\ Running(t)
    /\ pc[t] = At("ret")
    /\ instance' = [instance EXCEPT ![t] = InstanceRef]
    /\ returned' = returned \cup {InstanceRef}
    /\ pc' = [pc EXCEPT ![t] = At("body")]
    /\ UNCHANGED <<state, owner, atexitList, count, ctorCount,
                   dtorCount, lockCount, unlockCount, started, exited>>

----------------------------------------------------------------------------
(* multithreading_test and main, on the main thread *)

\* boost::thread thread1(thread_main_1); thread1.detach(); int count = 1;
StartThread ==
    /\ ~exited
    /\ pc[MainThread] = At("start")
    /\ started' = started \cup {Thread1}
    /\ count' = 1
    /\ pc' = [pc EXCEPT ![MainThread] = At("loop"), ![Thread1] = At("body")]
    /\ UNCHANGED <<state, owner, atexitList, instance, returned, ctorCount,
                   dtorCount, lockCount, unlockCount, exited>>

\* while (count <= 5) { cout; sleep(5); GetInstance() ...
MainCall ==
    /\ ~exited
    /\ pc[MainThread] = At("loop")
    /\ count <= MainCalls
    /\ pc' = [pc EXCEPT ![MainThread] = In("chk", "mutex")]
    /\ UNCHANGED <<state, owner, atexitList, count, instance, returned, ctorCount,
                   dtorCount, lockCount, unlockCount, started, exited>>

\* ... TestClass2 & instance = <the returned reference>; count++; }
MainReturn ==
    /\ ~exited
    /\ pc[MainThread] = At("ret")
    /\ instance' = [instance EXCEPT ![MainThread] = InstanceRef]
    /\ returned' = returned \cup {InstanceRef}
    /\ count' = count + 1
    /\ pc' = [pc EXCEPT ![MainThread] = At("loop")]
    /\ UNCHANGED <<state, owner, atexitList, ctorCount,
                   dtorCount, lockCount, unlockCount, started, exited>>

\* The loop ends, multithreading_test returns, main returns 0: exit begins.
MainExit ==
    /\ ~exited
    /\ pc[MainThread] = At("loop")
    /\ count > MainCalls
    /\ pc' = [pc EXCEPT ![MainThread] = At("exit")]
    /\ UNCHANGED <<state, owner, atexitList, count, instance, returned, ctorCount,
                   dtorCount, lockCount, unlockCount, started, exited>>

\* ~TestClass2(), run by exit on the main thread
DestroyInstance ==
    /\ ~exited
    /\ pc[MainThread] = At("exit")
    /\ atexitList # <<>> /\ Head(atexitList) = "instance"
    /\ dtorCount' = dtorCount + 1
    /\ state' = [state EXCEPT !["instance"] = "Destroyed"]
    /\ atexitList' = Tail(atexitList)
    /\ UNCHANGED <<pc, owner, count, instance, returned, ctorCount,
                   lockCount, unlockCount, started, exited>>

\* ~lock_guard(): mutex.unlock(), on the main thread. Unlocking a mutex that
\* another thread locked is undefined: the mutex is released, or the call
\* fails and leaves it locked.
DestroyGuard ==
    /\ ~exited
    /\ pc[MainThread] = At("exit")
    /\ atexitList # <<>> /\ Head(atexitList) = "guard"
    /\ unlockCount' = unlockCount + 1
    /\ \/ owner' = NoThread
       \/ owner # MainThread /\ owner' = owner
    /\ state' = [state EXCEPT !["guard"] = "Destroyed"]
    /\ atexitList' = Tail(atexitList)
    /\ UNCHANGED <<pc, count, instance, returned, ctorCount,
                   dtorCount, lockCount, started, exited>>

\* ~mutex()
DestroyMutex ==
    /\ ~exited
    /\ pc[MainThread] = At("exit")
    /\ atexitList # <<>> /\ Head(atexitList) = "mutex"
    /\ state' = [state EXCEPT !["mutex"] = "Destroyed"]
    /\ atexitList' = Tail(atexitList)
    /\ UNCHANGED <<pc, owner, count, instance, returned, ctorCount,
                   dtorCount, lockCount, unlockCount, started, exited>>

\* All destructors have run: the process ends, and the detached thread with it.
ProcessExit ==
    /\ ~exited
    /\ pc[MainThread] = At("exit")
    /\ atexitList = <<>>
    /\ exited' = TRUE
    /\ pc' = [pc EXCEPT ![MainThread] = At("exited")]
    /\ UNCHANGED <<state, owner, atexitList, count, instance, returned, ctorCount,
                   dtorCount, lockCount, unlockCount, started>>

----------------------------------------------------------------------------

\* A step of GetInstance by thread t.
GetInstance(t) ==
    \/ \E s \in StaticNames : PassStatic(t, s)
    \/ \E s \in StaticNames : AcquireStatic(t, s)
    \/ ConstructMutex(t)
    \/ ConstructGuard(t)
    \/ ConstructInstance(t)
    \/ \E s \in StaticNames : ReleaseStatic(t, s)

\* A step of a thread running thread_main_1.
thread_main_1(t) ==
    \/ WorkerCall(t)
    \/ GetInstance(t)
    \/ WorkerReturn(t)

Next ==
    \/ StartThread
    \/ MainCall
    \/ GetInstance(MainThread)
    \/ MainReturn
    \/ MainExit
    \/ DestroyInstance
    \/ DestroyGuard
    \/ DestroyMutex
    \/ ProcessExit
    \/ \E t \in started : thread_main_1(t)

Spec == Init /\ [][Next]_vars

NextN == \E t \in started : thread_main_1(t)

SpecN == InitN /\ [][NextN]_vars

\* Every running thread is scheduled again and again.
LiveSpecN == InitN /\ [][NextN]_vars /\ \A t \in Workers : WF_vars(thread_main_1(t))

----------------------------------------------------------------------------
(* Properties *)

resource == state["instance"]

ShutdownBegun == pc[MainThread].at \in {"exit", "exited"}

\* The threads running the initializer of static s.
Initializing(s) == {t \in Threads : pc[t] \in {In("ctor", s), In("rel", s)}}

\* C1: for N >= 1 threads calling GetInstance concurrently, the TestClass2
\* constructor has run at most once in every reachable state, and exactly once
\* as soon as a GetInstance call has reached its return or has returned.
C1_ConstructorRunsOnce ==
    /\ ctorCount <= 1
    /\ (returned # {} \/ \E t \in Threads : pc[t] = At("ret")) => ctorCount = 1

\* Two first calls overlap: one thread has run the constructor and has not
\* yet completed the initialization, another waits at the declaration.
C1_Witness ==
    \E t, u \in started :
        /\ t # u
        /\ pc[t] = In("rel", "instance") /\ pc[u] = In("chk", "instance")
        /\ instance[t] = NoRef /\ instance[u] = NoRef
        /\ ctorCount = 1

\* C2: every reference GetInstance returns, to the worker thread or to the main
\* thread, in overlapping or in repeated calls, has the same identity, and a
\* repeated call constructs nothing again.
C2_SameInstance ==
    /\ Cardinality(returned) <= 1
    /\ NoRef \notin returned
    /\ \A t, u \in Threads :
        (instance[t] # NoRef /\ instance[u] # NoRef) => instance[t] = instance[u]
    /\ returned # {} => ctorCount = 1

\* Both threads hold a reference and the main thread has called repeatedly.
C2_Witness ==
    /\ instance[MainThread] # NoRef /\ instance[Thread1] # NoRef
    /\ count >= 3
    /\ pc[Thread1] = At("body")

\* C3: no GetInstance call reaches its return while the resource is
\* Uninitialized or Constructing: a thread at the return statement, or holding
\* a returned reference, implies the constructor has completed, and the
\* resource is Ready unless the shutdown of the process has begun.
C3_NoPrematureReturn ==
    /\ \A t \in Threads :
        (pc[t] = At("ret") \/ instance[t] # NoRef) =>
            /\ resource \in {"Ready", "Destroyed"}
            /\ ctorCount >= 1
            /\ resource = "Ready" \/ ShutdownBegun
    /\ resource \in {"Uninitialized", "Constructing"} => returned = {}

\* Both threads are at the return statement of their first call.
C3_Witness ==
    /\ pc[MainThread] = At("ret") /\ pc[Thread1] = At("ret")
    /\ instance[MainThread] = NoRef /\ instance[Thread1] = NoRef

\* C4: the TestClass2 destructor runs at most once, only after main has
\* returned, only on a Ready instance; Destroyed is terminal; and when the
\* process has ended it has run exactly once.
C4_DestructorRunsOnce ==
    [][/\ dtorCount' <= 1
       /\ dtorCount' # dtorCount =>
            /\ dtorCount' = dtorCount + 1
            /\ pc[MainThread] = At("exit")
            /\ resource = "Ready" /\ resource' = "Destroyed"
       /\ resource = "Destroyed" => resource' = "Destroyed"
       /\ (resource' = "Destroyed") = (dtorCount' = 1)
       /\ exited' => dtorCount' = 1]_vars

C4_Witness == exited /\ dtorCount = 1 /\ resource = "Destroyed"

\* C5: while the process lives, no GetInstance call is in progress when or
\* after the instance is Destroyed.
C5_NoCallOnceDestroyed ==
    (resource = "Destroyed" /\ ~exited) =>
        \A t \in started \cup {MainThread} : ~InCall(t)

\* C6: under fair scheduling every GetInstance call eventually returns.
C6_EveryCallReturns ==
    \A t \in Workers : InCall(t) ~> (pc[t] = At("body") /\ instance[t] # NoRef)

\* All of at least two callers hold the reference and are outside GetInstance.
C6_Witness ==
    /\ Cardinality(started) >= 2
    /\ \A t \in started : pc[t] = At("body") /\ instance[t] # NoRef

\* C8: whenever a GetInstance call has returned and none is in progress, the
\* mutex is unlocked.
C8_MutexFreeOutsideCalls ==
    (returned # {} /\ \A t \in Threads : ~InCall(t)) => owner = NoThread

\* C9: at most one thread is in the construction of the resource at any time,
\* the step Uninitialized -> Constructing is taken only while no thread is
\* constructing, and the resource state changes only along
\* Uninitialized -> Constructing -> Ready -> Destroyed.
C9_OneConstructorAtATime ==
    [][/\ Cardinality(Initializing("instance")') <= 1
       /\ (resource' = "Constructing") = (Initializing("instance")' # {})
       /\ Initializing("instance")' \ Initializing("instance") # {} =>
            /\ Initializing("instance") = {}
            /\ resource = "Uninitialized"
       /\ resource' # resource =>
            <<resource, resource'>> \in {<<"Uninitialized", "Constructing">>,
                                         <<"Constructing", "Ready">>,
                                         <<"Ready", "Destroyed">>}]_vars

\* The worker thread constructs the resource while the main thread waits.
C9_Witness ==
    /\ resource = "Constructing"
    /\ pc[Thread1] = In("ctor", "instance")
    /\ pc[MainThread] = In("chk", "instance")

====
